---------------------------- MODULE Spec2Model ----------------------------
(***************************************************************************)
(* A model of src/lib.rs: the time-indexed trajectory store `Path`        *)
(* (a BTreeMap<NotNan<f64>, Pose> plus a list of waypoint timestamps),     *)
(* its construction from a deserialized ChoreoTrajectory, its queries     *)
(* get / length / waypoints, and the pure transform Pose::mirror.          *)
(*                                                                         *)
(* f64 values are modelled as exact rationals <<n, d>> in lowest terms     *)
(* with d > 0; the pair <<0, 0>> is NaN, which every arithmetic operation *)
(* propagates.  Angles are counted in degrees, so that the half turn      *)
(* std::f64::consts::PI radians is the whole number 180.                  *)
(***************************************************************************)
EXTENDS Integers, Sequences, FiniteSets

\* ------------------------------------------------------------- bounds
\* Longest sample list handed to the constructor.
MaxSamples == 3
\* Longest waypoint list (snapshot side and trajectory side).
MaxWaypoints == 2
\* Sample and waypoint timestamps are the whole seconds 0..MaxTime.
MaxTime == 2
\* Elapsed times are the multiples of 1/Den second from -1/Den to
\* MaxTime + 1/Den.
Den == 2

\* std::f64::consts::PI radians, in degrees.
PI == 180

\* --------------------------------------------------------------- f64
Abs(n) == IF n < 0 THEN -n ELSE n

RECURSIVE GCD(_, _)
GCD(a, b) == IF b = 0 THEN a ELSE GCD(b, a % b)

NaN == <<0, 0>>

IsNaN(a) == a[2] = 0

\* The f64 with value n/d; a zero denominator is NaN.
Rat(n, d) ==
    IF d = 0 THEN NaN
    ELSE LET g == GCD(Abs(n), Abs(d))
             s == IF d < 0 THEN -1 ELSE 1
         IN  <<(s * n) \div g, (s * d) \div g>>

R(n) == <<n, 1>>

RAdd(a, b) == Rat(a[1] * b[2] + b[1] * a[2], a[2] * b[2])

RSub(a, b) == Rat(a[1] * b[2] - b[1] * a[2], a[2] * b[2])

RMul(a, b) == Rat(a[1] * b[1], a[2] * b[2])

RDiv(a, b) == Rat(a[1] * b[2], a[2] * b[1])

RNeg(a) == Rat(-a[1], a[2])

\* a < b and a <= b on f64; every comparison with NaN is false.
RLt(a, b) == ~IsNaN(a) /\ ~IsNaN(b) /\ a[1] * b[2] < b[1] * a[2]

RLeq(a, b) == ~IsNaN(a) /\ ~IsNaN(b) /\ a[1] * b[2] <= b[1] * a[2]

\* ------------------------------------------------------- Sample, Pose
\* struct Pose.
MkPose(x, y, heading, angular_velocity, velocity_x, velocity_y) ==
    [x |-> x, y |-> y, heading |-> heading,
     angular_velocity |-> angular_velocity,
     velocity_x |-> velocity_x, velocity_y |-> velocity_y]

\* struct Sample.
MkSample(t, x, y, heading, velocity_x, velocity_y, angular_velocity) ==
    [t |-> t, x |-> x, y |-> y, heading |-> heading,
     velocity_x |-> velocity_x, velocity_y |-> velocity_y,
     angular_velocity |-> angular_velocity]

\* impl From<Sample> for Pose: the six quantities, the timestamp dropped.
SampleToPose(value) ==
    MkPose(value.x, value.y, value.heading, value.angular_velocity,
           value.velocity_x, value.velocity_y)

\* lerp with the subtraction lost: a + b * l.
lerpNoSub(a, b, l) == RAdd(a, RMul(b, l))

\* fn lerp<A>(a, b, l) = a + (b - a) * l.
lerp(a, b, l) == RAdd(a, RMul(RSub(b, a), l))

\* Pose::lerp.
PoseLerp(self, other, l) ==
    MkPose(lerp(self.x, other.x, l),
           lerp(self.y, other.y, l),
           lerp(self.heading, other.heading, l),
           lerp(self.angular_velocity, other.angular_velocity, l),
           lerp(self.velocity_x, other.velocity_x, l),
           lerp(self.velocity_y, other.velocity_y, l))

\* mirror with the linear velocity negated as well.
PoseMirrorVelocity(self, x, y) ==
    MkPose(RAdd(RSub(x, self.x), x),
           RAdd(RSub(y, self.y), y),
           RAdd(self.heading, R(PI)),
           RNeg(self.angular_velocity),
           RNeg(self.velocity_x),
           RNeg(self.velocity_y))

\* Pose::mirror.
PoseMirror(self, x, y) ==
    MkPose(RAdd(RSub(x, self.x), x),
           RAdd(RSub(y, self.y), y),
           RAdd(self.heading, R(PI)),
           RNeg(self.angular_velocity),
           self.velocity_x,
           self.velocity_y)

\* ---------------------------------------------------------- BTreeMap
\* BTreeMap::new(): the map with no key.
EmptyMap == [k \in {} |-> MkPose(R(0), R(0), R(0), R(0), R(0), R(0))]

\* insert that keeps the value of an existing key (entry().or_insert()).
InsertKeepFirst(m, k, v) ==
    [x \in DOMAIN m \cup {k} |-> IF x \in DOMAIN m THEN m[x] ELSE v]

\* BTreeMap::insert: the value of an existing key is replaced.
Insert(m, k, v) == [x \in DOMAIN m \cup {k} |-> IF x = k THEN v ELSE m[x]]

\* The least and the greatest element of a non-empty set of keys.
MinKey(S) == CHOOSE k \in S : \A j \in S : RLeq(k, j)

MaxKey(S) == CHOOSE k \in S : \A j \in S : RLeq(j, k)

\* An Option<K>: << >> is None, <<k>> is Some(k).  A cursor is the
\* Option of the key it points at, None being the ghost non-element.
None == << >>

Some(k) == <<k>>

\* upper_bound(Bound::Excluded(k)): the greatest key < k.
UpperBoundExcluded(m, k) ==
    LET S == {x \in DOMAIN m : RLt(x, k)}
    IN  IF S = {} THEN << >> ELSE <<MaxKey(S)>>

\* BTreeMap::upper_bound(Bound::Included(k)): a cursor at the greatest
\* key <= k, or at the ghost non-element when there is none.
UpperBound(m, k) ==
    LET S == {x \in DOMAIN m : RLeq(x, k)}
    IN  IF S = {} THEN None ELSE Some(MaxKey(S))

\* Cursor::peek_next: the key after the cursor; after the ghost comes the
\* first key of the map.
PeekNext(m, c) ==
    LET S == IF c = None THEN DOMAIN m
             ELSE {x \in DOMAIN m : RLt(c[1], x)}
    IN  IF S = {} THEN None ELSE Some(MinKey(S))

\* BTreeMap::last_key_value, its key.
LastKey(m) == IF DOMAIN m = {} THEN None ELSE Some(MaxKey(DOMAIN m))

\* --------------------------------------------------------------- Path
\* The for loop of Path::from_trajectory_data over samples[i..].
RECURSIVE InsertAll(_, _, _)
InsertAll(m, samples, i) ==
    IF i > Len(samples) THEN m
    ELSE InsertAll(Insert(m, samples[i].t, SampleToPose(samples[i])),
                   samples, i + 1)

\* NotNan::new(sample.t).unwrap() panics on the first NaN timestamp.
DataPanics(samples) == \E i \in 1..Len(samples) : IsNaN(samples[i].t)

\* The positions of the snapshot waypoints flagged split, from i on.
RECURSIVE ValidWaypoints(_, _, _)
ValidWaypoints(split, waypoints, i) ==
    IF i > Len(split) THEN << >>
    ELSE IF split[i]
         THEN <<waypoints[i]>> \o ValidWaypoints(split, waypoints, i + 1)
         ELSE ValidWaypoints(split, waypoints, i + 1)

\* choreo.trajectory.waypoints[i] panics when i is out of bounds.
IndexPanics(split, waypoints) ==
    \E i \in 1..Len(split) : split[i] /\ i > Len(waypoints)

ZeroPose == MkPose(R(0), R(0), R(0), R(0), R(0), R(0))

\* Path::get: [status, pose].
PathGet(m, elapsed) ==
    IF IsNaN(elapsed) THEN [status |-> "panic", pose |-> ZeroPose]
    ELSE
    LET below == UpperBound(m, elapsed)
        above == PeekNext(m, below)
    IN  IF above # None
        THEN IF below = None
             THEN [status |-> "panic", pose |-> ZeroPose]
             ELSE LET below_time == below[1]
                      above_time == above[1]
                      progress == RDiv(RSub(elapsed, below_time),
                                       RSub(above_time, below_time))
                  IN  [status |-> "ok",
                       pose |-> PoseLerp(m[below_time], m[above_time], progress)]
        ELSE IF below = None
             THEN [status |-> "panic", pose |-> ZeroPose]
             ELSE [status |-> "ok", pose |-> m[below[1]]]

\* Path::length: [status, time].
PathLength(m) ==
    IF LastKey(m) = None THEN [status |-> "panic", time |-> R(0)]
    ELSE [status |-> "ok", time |-> LastKey(m)[1]]

\* ------------------------------------------------------------- inputs
SeqsUpTo(S, n) == UNION {[1..k -> S] : k \in 0..n}

Times == {R(t) : t \in 0..MaxTime}

\* The six quantities of the i-th sample of a list: every sample of a list
\* carries a pose of its own, not on a line with its neighbours'.
Payload(i) ==
    MkPose(R(2 * i), Rat(-i, 2), R(90 * i), R(i * i - 5), R(i), R(1 - 2 * i))

WithTime(t, p) ==
    MkSample(t, p.x, p.y, p.heading, p.velocity_x, p.velocity_y,
             p.angular_velocity)

\* The sample list with the timestamps ts, in this order.
SampleList(ts) == [i \in 1..Len(ts) |-> WithTime(ts[i], Payload(i))]

\* What serde_json yields: finite numbers only.
ParsedTimes == Times

\* Any f64 timestamp, NaN included.
AnyTimes == Times \cup {NaN}

WaypointTimes == Times

\* The waypoint lists do not depend on the samples: they are varied
\* against the sample lists of at most one sample.
WaypointBound(ts) == IF Len(ts) <= 1 THEN MaxWaypoints ELSE 0

Elapsed == {Rat(n, Den) : n \in (-1)..(MaxTime * Den + 1)} \cup {NaN}

\* Reference points of mirror: (17.55 / 2, 8.05 / 2) and (1, 0).
RefPoints == {<<Rat(351, 40), Rat(161, 40)>>, <<R(1), R(0)>>}

\* ------------------------------------------------------------- state
VARIABLES
    pc,         \* "start", "built", "err" (Err returned) or "panicked"
    input,      \* what the constructor was given: the samples, the
                \* trajectory's waypoints and the snapshot's split flags
    samples,    \* Path.samples
    waypoints,  \* Path.waypoints
    ret         \* the last call and what it returned

vars == <<pc, input, samples, waypoints, ret>>

NoInput == [samples |-> << >>, waypoints |-> << >>, split |-> << >>]

Ret(op, status, elapsed, pose, src, ref, time, wps) ==
    [op |-> op, status |-> status, elapsed |-> elapsed, pose |-> pose,
     src |-> src, ref |-> ref, time |-> time, wps |-> wps]

NoRef == <<R(0), R(0)>>

Call(op, status) ==
    Ret(op, status, R(0), ZeroPose, ZeroPose, NoRef, R(0), << >>)

Init ==
    /\ pc = "start"
    /\ input = NoInput
    /\ samples = EmptyMap
    /\ waypoints = << >>
    /\ ret = Call("none", "none")

\* Path::from_trajectory_data(data), as the tail of both constructors.
FromTrajectoryDataBody(op, data_samples, data_waypoints) ==
    IF DataPanics(data_samples)
    THEN /\ pc' = "panicked"
         /\ samples' = EmptyMap
         /\ waypoints' = << >>
         /\ ret' = Call(op, "panic")
    ELSE /\ pc' = "built"
         /\ samples' = InsertAll(EmptyMap, data_samples, 1)
         /\ waypoints' = data_waypoints
         /\ ret' = Call(op, "ok")

\* Path::from_trajectory on a text serde_json rejects: Err is returned.
FromTrajectoryErr ==
    /\ pc = "start"
    /\ pc' = "err"
    /\ input' = NoInput
    /\ ret' = Call("from_trajectory", "err")
    /\ UNCHANGED <<samples, waypoints>>

\* Path::from_trajectory on a text that deserializes to a ChoreoTrajectory.
FromTrajectory ==
    /\ pc = "start"
    /\ \E ts \in SeqsUpTo(ParsedTimes, MaxSamples) :
       \E w \in SeqsUpTo(WaypointTimes, WaypointBound(ts)) :
       \E f \in SeqsUpTo(BOOLEAN, WaypointBound(ts)) :
       LET s == SampleList(ts) IN
          /\ input' = [samples |-> s, waypoints |-> w, split |-> f]
          /\ IF IndexPanics(f, w)
             THEN /\ pc' = "panicked"
                  /\ ret' = Call("from_trajectory", "panic")
                  /\ UNCHANGED <<samples, waypoints>>
             ELSE FromTrajectoryDataBody("from_trajectory", s,
                                         ValidWaypoints(f, w, 1))

\* Path::from_trajectory_data called with a TrajectoryData of any f64s.
FromTrajectoryData ==
    /\ pc = "start"
    /\ \E ts \in SeqsUpTo(AnyTimes, MaxSamples) :
       \E w \in SeqsUpTo(WaypointTimes, WaypointBound(ts)) :
       LET s == SampleList(ts) IN
          /\ input' = [samples |-> s, waypoints |-> w, split |-> << >>]
          /\ FromTrajectoryDataBody("from_trajectory_data", s, w)

\* Path::get(elapsed).
Get ==
    /\ pc = "built"
    /\ \E elapsed \in Elapsed :
          LET r == PathGet(samples, elapsed)
          IN  /\ ret' = Ret("get", r.status, elapsed, r.pose, ZeroPose,
                            NoRef, R(0), << >>)
              /\ pc' = IF r.status = "panic" THEN "panicked" ELSE "built"
    /\ UNCHANGED <<input, samples, waypoints>>

\* Path::length().
Length ==
    /\ pc = "built"
    /\ LET r == PathLength(samples)
       IN  /\ ret' = Ret("length", r.status, R(0), ZeroPose, ZeroPose,
                         NoRef, r.time, << >>)
           /\ pc' = IF r.status = "panic" THEN "panicked" ELSE "built"
    /\ UNCHANGED <<input, samples, waypoints>>

\* Path::waypoints().
Waypoints ==
    /\ pc = "built"
    /\ ret' = Ret("waypoints", "ok", R(0), ZeroPose, ZeroPose, NoRef, R(0),
                  waypoints)
    /\ UNCHANGED <<pc, input, samples, waypoints>>

\* Pose::mirror(x, y) on the pose the last get returned.
Mirror ==
    /\ pc = "built"
    /\ ret.op = "get"
    /\ ret.status = "ok"
    /\ \E ref \in RefPoints :
          ret' = Ret("mirror", "ok", R(0),
                     PoseMirror(ret.pose, ref[1], ref[2]),
                     ret.pose, ref, R(0), << >>)
    /\ UNCHANGED <<pc, input, samples, waypoints>>

Next ==
    \/ FromTrajectoryErr
    \/ FromTrajectory
    \/ FromTrajectoryData
    \/ Get
    \/ Length
    \/ Waypoints
    \/ Mirror

Spec == Init /\ [][Next]_vars

\* ------------------------------------------------------------- claims
\* A Path has been constructed (and may since have been queried).
Constructed ==
    \/ pc = "built"
    \/ pc = "panicked" /\ ret.op \in {"get", "length"}

Keys == DOMAIN samples

IsFirstKey(k) == k \in Keys /\ \A j \in Keys : RLeq(k, j)

IsLastKey(k) == k \in Keys /\ \A j \in Keys : RLeq(j, k)

\* t0 < t1 are keys with no key strictly between them.
Adjacent(t0, t1) ==
    /\ t0 \in Keys
    /\ t1 \in Keys
    /\ RLt(t0, t1)
    /\ ~\E j \in Keys : RLt(t0, j) /\ RLt(j, t1)

\* (1 - f) * a + f * b.
Blend(a, b, f) == RAdd(RMul(RSub(R(1), f), a), RMul(f, b))

IsBlend(p, p0, p1, f) ==
    /\ p.x = Blend(p0.x, p1.x, f)
    /\ p.y = Blend(p0.y, p1.y, f)
    /\ p.heading = Blend(p0.heading, p1.heading, f)
    /\ p.angular_velocity = Blend(p0.angular_velocity, p1.angular_velocity, f)
    /\ p.velocity_x = Blend(p0.velocity_x, p1.velocity_x, f)
    /\ p.velocity_y = Blend(p0.velocity_y, p1.velocity_y, f)

\* The six quantities of a sample, as a pose.
Carries(p, s) ==
    /\ p.x = s.x
    /\ p.y = s.y
    /\ p.heading = s.heading
    /\ p.angular_velocity = s.angular_velocity
    /\ p.velocity_x = s.velocity_x
    /\ p.velocity_y = s.velocity_y

InputTimes == {input.samples[i].t : i \in 1..Len(input.samples)}

\* C1: on a Path of at least one sample, get of an elapsed time strictly
\* below the smallest sample timestamp (negative times included) does not
\* fail and returns the first sample's pose exactly.
C1_ClampToStart ==
    (ret.op = "get" /\ Keys # {} /\ \A k \in Keys : RLt(ret.elapsed, k))
        => /\ ret.status = "ok"
           /\ \A k \in Keys : IsFirstKey(k) => ret.pose = samples[k]

\* C2: for adjacent sample timestamps t0 < t1 with poses P0, P1 and an
\* elapsed time t0 + f * (t1 - t0) with f in [0, 1], get returns the
\* field-wise affine blend P0 + f * (P1 - P0) of the six quantities; at
\* t0 that is P0 and at t1 it is P1, exactly.
C2_InterpolationLinear ==
    ret.op = "get" =>
        \A t0, t1 \in Keys :
            (Adjacent(t0, t1) /\ RLeq(t0, ret.elapsed) /\ RLeq(ret.elapsed, t1))
                => /\ ret.status = "ok"
                   /\ IsBlend(ret.pose, samples[t0], samples[t1],
                              RDiv(RSub(ret.elapsed, t0), RSub(t1, t0)))
                   /\ ret.elapsed = t0 => ret.pose = samples[t0]
                   /\ ret.elapsed = t1 => ret.pose = samples[t1]

\* A get strictly inside a bracket that is followed by a third key.
C2_Witness ==
    /\ ret.op = "get"
    /\ ret.status = "ok"
    /\ Cardinality(Keys) >= 3
    /\ \E t0, t1 \in Keys :
          /\ Adjacent(t0, t1)
          /\ RLt(t0, ret.elapsed)
          /\ RLt(ret.elapsed, t1)
          /\ ~IsLastKey(t1)
          /\ samples[t0].heading # samples[t1].heading

\* C3: on a non-empty Path, get of an elapsed time at or beyond the
\* greatest sample timestamp returns the last sample's pose unchanged.
C3_ClampToEnd ==
    (ret.op = "get" /\ \E k \in Keys : IsLastKey(k) /\ RLeq(k, ret.elapsed))
        => /\ ret.status = "ok"
           /\ \A k \in Keys : IsLastKey(k) => ret.pose = samples[k]

\* A get strictly beyond the last of several keys.
C3_Witness ==
    /\ ret.op = "get"
    /\ ret.status = "ok"
    /\ Cardinality(Keys) >= 2
    /\ \E k \in Keys : IsLastKey(k) /\ RLt(k, ret.elapsed)

\* C4: no Path with an empty timestamp mapping is ever produced:
\* construction from zero samples is refused.
C4_NoEmptyPath == Constructed => Keys # {}

\* C5: a NaN sample timestamp makes ingestion return an error; it does not
\* abort and builds no Path.
C5_NaNIsAnError ==
    (ret.op # "none" /\ \E t \in InputTimes : IsNaN(t)) => pc = "err"

\* C6: the mapping of a constructed Path has exactly one entry per distinct
\* input timestamp, holding the pose of the last sample, in input order,
\* that carries the timestamp.
C6_LastDuplicateWins ==
    Constructed =>
        /\ Keys = InputTimes
        /\ \A i \in 1..Len(input.samples) :
              (\A j \in (i + 1)..Len(input.samples) :
                  input.samples[j].t # input.samples[i].t)
                  => Carries(samples[input.samples[i].t], input.samples[i])

\* A Path of several keys built from a list that repeats a timestamp.
C6_Witness ==
    /\ Constructed
    /\ Cardinality(Keys) >= 2
    /\ \E i, j \in 1..Len(input.samples) :
          /\ i < j
          /\ input.samples[i].t = input.samples[j].t
          /\ input.samples[i].x # input.samples[j].x

\* C7: every timestamp waypoints() returns is a key of the sample mapping.
C7_NoDanglingWaypoint ==
    ret.op = "waypoints" =>
        \A i \in 1..Len(ret.wps) : ret.wps[i] \in Keys

\* The positions flagged split.
Flagged == {i \in 1..Len(input.split) : input.split[i]}

\* C8: whatever the lengths of the two waypoint lists, from_trajectory on a
\* deserialized record produces a Path whose waypoints are the trajectory
\* waypoint timestamps at the positions flagged split, in increasing
\* position.
C8_FlaggedWaypoints ==
    (ret.op = "from_trajectory" /\ ret.status # "err")
        => /\ pc = "built"
           /\ Len(waypoints) = Cardinality(Flagged)
           /\ \A i \in Flagged :
                 waypoints[Cardinality({j \in Flagged : j <= i})]
                     = input.waypoints[i]

\* C9: length() is the maximum timestamp among the ingested samples,
\* whatever their order, on every call.
C9_LengthIsMaxTimestamp ==
    ret.op = "length"
        => /\ ret.status = "ok"
           /\ ret.time \in InputTimes
           /\ \A t \in InputTimes : RLeq(t, ret.time)

\* C10: mirror(rx, ry) of a pose P has x = 2 * rx - P.x, y = 2 * ry - P.y,
\* heading = P.heading plus a half turn, not normalised, the angular
\* velocity negated and both linear velocities unchanged.
C10_Mirror ==
    ret.op = "mirror" =>
        /\ ret.pose.x = RSub(RMul(R(2), ret.ref[1]), ret.src.x)
        /\ ret.pose.y = RSub(RMul(R(2), ret.ref[2]), ret.src.y)
        /\ ret.pose.heading = RAdd(ret.src.heading, R(180))
        /\ RAdd(ret.pose.angular_velocity, ret.src.angular_velocity) = R(0)
        /\ ret.pose.velocity_x = ret.src.velocity_x
        /\ ret.pose.velocity_y = ret.src.velocity_y

\* A mirror of a moving pose whose heading leaves the first turn.
C10_Witness ==
    /\ ret.op = "mirror"
    /\ RLt(R(360), ret.pose.heading)
    /\ ret.src.velocity_x # R(0)
    /\ ret.src.velocity_y # R(0)
    /\ ret.src.angular_velocity # R(0)
    /\ ret.ref[1] # ret.ref[2]

=============================================================================
